---- MODULE Spec2Model ----
(***************************************************************************)
(* Model of the recommend-places pipeline of the hackerton API:            *)
(* request validation, geocoding with provider fallback, centroid, place   *)
(* search with provider fallback, transit accessibility analysis and the   *)
(* oracle-based ranking with its accessibility-only fallback.              *)
(*                                                                         *)
(* Coordinates are integers in units of 1e-4 degree.  Strings produced by  *)
(* the providers are abstracted by small records; the external providers   *)
(* and the oracle are the environment and answer nondeterministically.     *)
(***************************************************************************)
EXTENDS Integers, Sequences, FiniteSets, TLC

\* ------------------------------------------------------------------ bounds
\* Largest address list whose external calls are explored with failures.
MaxAddrs == 2
\* Largest number of places a search provider has around the centre.
MaxPlaces == 2
\* External failures injected into one request.
MaxFaults == 2
\* Longest string over a two-letter alphabet handed to the edit distance.
MaxLen == 3

\* ------------------------------------------------------- program constants
MaxAddresses == 20
MinRadius == 100
MaxRadius == 20000
MinResults == 1
MaxResultsLimit == 50
DefaultRadius == 2000
DefaultMaxResults == 10
GoogleDetailLimit == 10
KakaoMaxSize == 15
FallbackBaseMinutes == 15
FallbackSpreadMinutes == 20
DefaultScore == 5
SeoulLat == 375665
SeoulLng == 1269780

\* An optional string field that is absent, an optional number that is
\* absent, and an optional record (a sequence of at most one element).
ABSENT == "absent"
Undefined == 0 - 1
None == <<>>
Some(x) == <<x>>

Min2(a, b) == IF a <= b THEN a ELSE b
Max2(a, b) == IF a >= b THEN a ELSE b
Abs(a) == IF a >= 0 THEN a ELSE 0 - a

VARIABLES
    req,        \* the request body: number of addresses and optional fields
    googleKey,  \* GOOGLE_MAPS_API_KEY is configured
    stage,      \* position of the request in the pipeline
    error,      \* error code the request ended with, or "none"
    failedFrom, \* stage the request was in when it failed
    faults,     \* external failures the environment may still inject
    log,        \* external calls issued so far, in order
    geo,        \* results of geocodeAddresses so far
    center,     \* centre point, None until computed
    places,     \* candidate places (enriched by the accessibility stage)
    origins,    \* origin coordinates used by the accessibility stage
    ranked,     \* the list handed to generateAIRecommendations
    oracle,     \* the oracle's answer, None until it is asked
    recs,       \* recommendations returned by getPlaceRecommendations
    diag,       \* distanceMatrix diagnostics of the response
    runIn,      \* input of a function run outside a request
    runOut      \* what the function returned

vars == <<req, googleKey, stage, error, failedFrom, faults, log, geo, center,
          places, origins, ranked, oracle, recs, diag, runIn, runOut>>

pipeVars == <<req, googleKey, stage, error, failedFrom, faults, log, geo,
              center, places, origins, ranked, oracle, recs, diag>>

\* ---------------------------------------------------------------- requests
\* The addresses of a request with n addresses are 1..n.
Addresses(r) == [i \in 1..r.n |-> i]

DefaultParams == [radius |-> Undefined, maxResults |-> Undefined, placeType |-> ABSENT]

ValidParams ==
    { DefaultParams,
      [radius |-> MinRadius, maxResults |-> MinResults, placeType |-> "cafe"] }

\* The largest optional fields the validators accept.
BoundaryParams ==
    [radius |-> MaxRadius, maxResults |-> MaxResultsLimit, placeType |-> ABSENT]

InvalidParams ==
    { [radius |-> rd, maxResults |-> Undefined, placeType |-> ABSENT] :
         rd \in {50, MinRadius - 1, MaxRadius + 1, 25000} }
    \cup
    { [radius |-> Undefined, maxResults |-> mr, placeType |-> ABSENT] :
         mr \in {MinResults - 1, MaxResultsLimit + 1} }

AddressCounts == (0..MaxAddrs) \cup {MaxAddresses, MaxAddresses + 1}

Request(k, p) ==
    [n |-> k, radius |-> p.radius, maxResults |-> p.maxResults,
     placeType |-> p.placeType]

\* Every address count with the default and the invalid optional fields;
\* the smallest optional fields with every count but the largest one that is
\* explored with failures; the largest optional fields with one address and
\* at the limit of the address count.
Requests ==
    { Request(k, p) : k \in AddressCounts, p \in {DefaultParams} \cup InvalidParams }
    \cup
    { Request(k, p) : k \in AddressCounts \ {MaxAddrs}, p \in ValidParams }
    \cup
    { Request(k, BoundaryParams) : k \in {1, MaxAddresses, MaxAddresses + 1} }

\* request.placeType || 'restaurant', request.radiusMeters || 2000, ...
PlaceTypeOf(r) == IF r.placeType = ABSENT THEN "restaurant" ELSE r.placeType
RadiusOf(r) == IF r.radius = Undefined \/ r.radius = 0 THEN DefaultRadius ELSE r.radius
MaxResultsOf(r) ==
    IF r.maxResults = Undefined \/ r.maxResults = 0 THEN DefaultMaxResults
    ELSE r.maxResults

\* class-validator decorators of PlaceRecommendationRequestDto; @IsOptional
\* skips the range checks of an absent field.
DtoValid(r) ==
    /\ r.n > 0
    /\ r.radius = Undefined \/ (r.radius >= MinRadius /\ r.radius <= MaxRadius)
    /\ r.maxResults = Undefined
          \/ (r.maxResults >= MinResults /\ r.maxResults <= MaxResultsLimit)

\* The explicit checks at the head of LocationController.recommendPlaces.
ControllerErrorLoose(r) ==
    IF r.n = 0 THEN "EMPTY_ADDRESSES"
    ELSE IF r.n > MaxAddresses + 1 THEN "TOO_MANY_ADDRESSES"
    ELSE "none"

ControllerError(r) ==
    IF r.n = 0 THEN "EMPTY_ADDRESSES"
    ELSE IF r.n > MaxAddresses THEN "TOO_MANY_ADDRESSES"
    ELSE "none"

\* ------------------------------------------------------------- coordinates
Coord(la, ln) == [lat |-> la, lng |-> ln]

\* What each geocoding provider answers for address a when it succeeds.
KakaoCoord(a) == Coord(375000 + 600 * a, 1270200 + 600 * a)
NaverCoord(a) == Coord(375000 + 600 * a + 60, 1270200 + 600 * a)
SeoulDefault == Coord(SeoulLat, SeoulLng)

ProviderCoord(via, a) == IF via = "kakao" THEN KakaoCoord(a) ELSE NaverCoord(a)

GeocodeFailures == {"notfound", "unavailable", "timeout"}

\* The failures the environment injects.  A request is explored either with
\* the failures of each provider or, when runIn is TimeoutsOn, with calls
\* that time out (every HTTP client is built with a timeout, after which
\* the call rejects).
TimeoutsOn == [fn |-> "timeouts"]
WithTimeouts == runIn = TimeoutsOn

InjectedGeocodeFailures ==
    IF WithTimeouts THEN {"timeout"} ELSE {"notfound", "unavailable"}
InjectedSearchFailures ==
    IF WithTimeouts THEN {"timeout"} ELSE {"unavailable"}
InjectedTransitFailures ==
    IF WithTimeouts THEN {"timeout"} ELSE {"zero", "none"}

\* Great-circle distance in metres, on the integer grid: one unit of
\* latitude is about 11 m and one unit of longitude about 9 m near Seoul.
calculateDistance(c1, c2) == 11 * Abs(c2.lat - c1.lat) + 9 * Abs(c2.lng - c1.lng)

RECURSIVE SumLat(_), SumLng(_)
SumLat(cs) == IF cs = <<>> THEN 0 ELSE Head(cs).lat + SumLat(Tail(cs))
SumLng(cs) == IF cs = <<>> THEN 0 ELSE Head(cs).lng + SumLng(Tail(cs))

\* The BusinessLogicException calculateCenterPoint throws on an empty list.
InvalidInput == [error |-> "INVALID_INPUT"]

calculateCenterPointFirst(cs) ==
    IF Len(cs) = 0 THEN InvalidInput ELSE cs[1]

calculateCenterPoint(cs) ==
    IF Len(cs) = 0 THEN InvalidInput
    ELSE IF Len(cs) = 1 THEN cs[1]
    ELSE Coord(SumLat(cs) \div Len(cs), SumLng(cs) \div Len(cs))

\* ------------------------------------------------------------ the call log
\* One external call: the service, the stage that issued it, the address or
\* place it is about, its outcome and, for a place search, the parameters it
\* was issued with and the number of places it returned.
Call(svc, st, arg, out) ==
    [svc |-> svc, stage |-> st, arg |-> arg, place |-> None, out |-> out,
     params |-> None]
SearchCall(svc, params, out, count) ==
    [svc |-> svc, stage |-> "SEARCHING", arg |-> count, place |-> None, out |-> out,
     params |-> Some(params)]
TransitCall(a, origin, key, out) ==
    [svc |-> "transit", stage |-> "ACCESSIBILITY", arg |-> a, place |-> Some(key),
     out |-> out, params |-> Some(origin)]

CallsOf(svcs) == { i \in DOMAIN log : log[i].svc \in svcs }

GeocodeSvcs == {"kakaoGeocode", "naverGeocode"}
SearchSvcs == {"googleSearch", "kakaoSearch"}

\* ------------------------------------------------------------------- Init
NoRun == [n |-> 0, m |-> 0]

PipeInit ==
    /\ req \in Requests
    /\ googleKey \in BOOLEAN
    /\ stage = "VALIDATING"
    /\ error = "none"
    /\ failedFrom = "none"
    /\ faults = IF req.n <= MaxAddrs THEN MaxFaults ELSE 0
    /\ log = <<>>
    /\ geo = <<>>
    /\ center = None
    /\ places = <<>>
    /\ origins = <<>>
    /\ ranked = <<>>
    /\ oracle = None
    /\ recs = <<>>
    /\ diag = None

Init ==
    /\ PipeInit
    /\ runIn = NoRun
    /\ runOut = <<None, None>>

\* ------------------------------------------------------------- validation
\* The global ValidationPipe runs the DTO's validators before the handler.
ValidationPipe ==
    /\ stage = "VALIDATING"
    /\ IF DtoValid(req)
         THEN /\ stage' = "CONTROLLER"
              /\ error' = error
         ELSE /\ stage' = "REJECTED"
              /\ error' = "VALIDATION_ERROR"
    /\ UNCHANGED <<req, googleKey, failedFrom, faults, log, geo, center,
                   places, origins, ranked, oracle, recs, diag, runIn, runOut>>

ControllerValidate ==
    /\ stage = "CONTROLLER"
    /\ IF ControllerError(req) = "none"
         THEN /\ stage' = "GEOCODING"
              /\ error' = error
         ELSE /\ stage' = "REJECTED"
              /\ error' = ControllerError(req)
    /\ UNCHANGED <<req, googleKey, failedFrom, faults, log, geo, center,
                   places, origins, ranked, oracle, recs, diag, runIn, runOut>>

\* -------------------------------------------------------------- geocoding
GeoResult(a, via) == [address |-> a, via |-> via, coordinates |-> ProviderCoord(via, a)]

\* The address geocodeAddresses is working on, and whether its Kakao call
\* has already failed.
CurrentAddress == Len(geo) + 1
KakaoFailedFor(a, st) ==
    \E i \in DOMAIN log :
        /\ log[i].svc = "kakaoGeocode" /\ log[i].stage = st /\ log[i].arg = a
        /\ log[i].out \in GeocodeFailures

\* What geocodeAddresses does once the Kakao call of an address has failed.
AfterKakaoFailureStrict(out) == IF out = "unavailable" THEN "naver" ELSE "throw"
AfterKakaoFailure(out) == "naver"

\* What geocodeAddresses does once both calls of an address have failed.
AfterAllFailedLenient == "skip"
AfterAllFailed == "throw"

GeocodeKakaoOk ==
    /\ stage = "GEOCODING"
    /\ CurrentAddress <= req.n
    /\ ~KakaoFailedFor(CurrentAddress, "GEOCODING")
    /\ log' = Append(log, Call("kakaoGeocode", "GEOCODING", CurrentAddress, "ok"))
    /\ geo' = Append(geo, GeoResult(CurrentAddress, "kakao"))
    /\ UNCHANGED <<req, googleKey, stage, error, failedFrom, faults, center,
                   places, origins, ranked, oracle, recs, diag, runIn, runOut>>

GeocodeKakaoFail ==
    /\ stage = "GEOCODING"
    /\ CurrentAddress <= req.n
    /\ ~KakaoFailedFor(CurrentAddress, "GEOCODING")
    /\ faults > 0
    /\ \E out \in InjectedGeocodeFailures :
          /\ log' = Append(log, Call("kakaoGeocode", "GEOCODING", CurrentAddress, out))
          /\ IF AfterKakaoFailure(out) = "naver"
               THEN UNCHANGED <<stage, error, failedFrom>>
               ELSE /\ stage' = "FAILED"
                    /\ error' = "GEOCODING_ALL_FAILED"
                    /\ failedFrom' = stage
    /\ faults' = faults - 1
    /\ UNCHANGED <<req, googleKey, geo, center, places, origins, ranked, oracle, recs, diag,
                   runIn, runOut>>

GeocodeNaverOk ==
    /\ stage = "GEOCODING"
    /\ CurrentAddress <= req.n
    /\ KakaoFailedFor(CurrentAddress, "GEOCODING")
    /\ log' = Append(log, Call("naverGeocode", "GEOCODING", CurrentAddress, "ok"))
    /\ geo' = Append(geo, GeoResult(CurrentAddress, "naver"))
    /\ UNCHANGED <<req, googleKey, stage, error, failedFrom, faults, center,
                   places, origins, ranked, oracle, recs, diag, runIn, runOut>>

GeocodeNaverFail ==
    /\ stage = "GEOCODING"
    /\ CurrentAddress <= req.n
    /\ KakaoFailedFor(CurrentAddress, "GEOCODING")
    /\ faults > 0
    /\ \E out \in InjectedGeocodeFailures :
          log' = Append(log, Call("naverGeocode", "GEOCODING", CurrentAddress, out))
    /\ faults' = faults - 1
    /\ IF AfterAllFailed = "throw"
         THEN /\ stage' = "FAILED"
              /\ error' = "GEOCODING_ALL_FAILED"
              /\ failedFrom' = stage
              /\ geo' = geo
         ELSE /\ geo' = Append(geo, [address |-> CurrentAddress, via |-> "none",
                                     coordinates |-> SeoulDefault])
              /\ UNCHANGED <<stage, error, failedFrom>>
    /\ UNCHANGED <<req, googleKey, center, places, origins, ranked, oracle, recs, diag,
                   runIn, runOut>>

\* reverseGeocode: the provider's address name, or, when the provider has no
\* document or the call fails, the text built from lat.toFixed(4) and
\* lng.toFixed(4) (the model's coordinates are in units of 1e-4 degree).
CenterLabel(out, c) ==
    IF out = "ok" THEN [kind |-> "provider", lat |-> 0, lng |-> 0]
    ELSE [kind |-> "coordinate", lat |-> c.lat, lng |-> c.lng]

\* What reverseGeocode does when the provider call fails.
AfterReverseGeocodeFailureFatal == "throw"
AfterReverseGeocodeFailure == "fallback"

\* getCenterPointFromAddresses: once every address is geocoded, compute the
\* centre and ask Kakao for a label.
ComputeCentroid ==
    /\ stage = "GEOCODING"
    /\ Len(geo) = req.n
    /\ \E out \in {"ok", "empty", "unavailable"} :
          /\ out # "ok" => faults > 0
          /\ faults' = IF out = "ok" THEN faults ELSE faults - 1
          /\ log' = Append(log, Call("reverseGeocode", "CENTROID", 0, out))
          /\ IF out = "unavailable" /\ AfterReverseGeocodeFailure = "throw"
               THEN /\ stage' = "FAILED"
                    /\ error' = "SERVICE_UNAVAILABLE"
                    /\ failedFrom' = "CENTROID"
                    /\ center' = center
               ELSE /\ stage' = "CENTROID"
                    /\ UNCHANGED <<error, failedFrom>>
                    /\ center' =
                         LET c == calculateCenterPoint(
                                     [i \in 1..Len(geo) |-> geo[i].coordinates])
                         IN Some([coordinates |-> c, address |-> CenterLabel(out, c),
                                  addressCount |-> req.n])
    /\ UNCHANGED <<req, googleKey, geo, places, origins,
                   ranked, oracle, recs, diag, runIn, runOut>>

\* ----------------------------------------------------------- place search
Place(src, k) ==
    [source |-> src, id |-> k,
     coordinates |-> IF src = "google" THEN Coord(375600 + 40 * k, 1270800 + 20 * k)
                     ELSE Coord(375600 + 30 * k, 1270800 - 50 * k),
     transportationAccessibility |-> None,
     aiRecommendationScore |-> Undefined,
     aiAnalysis |-> ABSENT]

\* searchPlacesNearby keeps results.slice(0, maxResults) and returns the
\* detailed records of the first min(10, maxResults) of them.
GoogleResults(m, limit) ==
    [k \in 1..Min2(Min2(m, limit), Min2(GoogleDetailLimit, limit)) |-> Place("google", k)]

\* searchPlacesByCategory asks Kakao for at most min(maxResults, 15) places.
KakaoResults(m, limit) ==
    [k \in 1..Min2(m, Min2(limit, KakaoMaxSize)) |-> Place("kakao", k)]

\* The arguments searchPlacesAroundCenter receives from getPlaceRecommendations.
SearchParams ==
    [center |-> center[1].coordinates, placeType |-> PlaceTypeOf(req),
     radiusMeters |-> RadiusOf(req), maxResults |-> MaxResultsOf(req) * 2]

\* The arguments the catch block of searchPlacesAroundCenter hands to
\* searchPlacesByCategory.
FallbackSearchParamsDefaultRadius(p) == [p EXCEPT !.radiusMeters = DefaultRadius]
FallbackSearchParams(p) == p

\* What searchPlacesAroundCenter does when the Google search throws.
AfterPrimarySearchFailureFatal == "throw"
AfterPrimarySearchFailure == "fallback"

PlaceKey(p) == <<p.source, p.id>>

\* accessibilityScore of a place as the controller and the fallback ranking
\* read it: `place.transportationAccessibility?.accessibilityScore || 5`.
ScoreOrDefault(p) ==
    IF p.transportationAccessibility = None
         \/ p.transportationAccessibility[1].accessibilityScore = 0
      THEN DefaultScore
      ELSE p.transportationAccessibility[1].accessibilityScore

HasScore(p) ==
    /\ p.transportationAccessibility # None
    /\ p.transportationAccessibility[1].accessibilityScore # 0

RECURSIVE FirstWithScore(_)
FirstWithScore(rs) ==
    IF rs = <<>> THEN None
    ELSE IF HasScore(Head(rs)) THEN Some(PlaceKey(Head(rs)))
    ELSE FirstWithScore(Tail(rs))

\* The distanceMatrix block of the response.
DistanceMatrix(rs) ==
    [totalCalculations |-> req.n * Len(rs),
     bestAccessibilityLocation |-> FirstWithScore(rs)]

GoogleSearchOk ==
    /\ stage = "CENTROID"
    /\ googleKey
    /\ \E m \in 0..MaxPlaces :
          LET found == GoogleResults(m, SearchParams.maxResults) IN
          /\ log' = Append(log, SearchCall("googleSearch", SearchParams, "ok", Len(found)))
          /\ places' = found
          /\ IF found = <<>>
               THEN /\ stage' = "DONE"
                    /\ diag' = Some(DistanceMatrix(<<>>))
               ELSE /\ stage' = "ACCESSIBILITY"
                    /\ diag' = diag
    /\ UNCHANGED <<req, googleKey, error, failedFrom, faults, geo, center,
                   origins, ranked, oracle, recs, runIn, runOut>>

\* Without an API key searchPlacesNearby throws before any request is made.
GoogleSearchFail ==
    /\ stage = "CENTROID"
    /\ googleKey => faults > 0
    /\ faults' = IF googleKey THEN faults - 1 ELSE faults
    /\ \E out \in IF googleKey THEN InjectedSearchFailures ELSE {"nokey"} :
          log' = Append(log, SearchCall("googleSearch", SearchParams, out, 0))
    /\ IF AfterPrimarySearchFailure = "fallback"
         THEN /\ stage' = "SEARCHING"
              /\ UNCHANGED <<error, failedFrom>>
         ELSE /\ stage' = "FAILED"
              /\ error' = "SERVICE_UNAVAILABLE"
              /\ failedFrom' = "SEARCHING"
    /\ UNCHANGED <<req, googleKey, geo, center, places, origins, ranked, oracle, recs, diag,
                   runIn, runOut>>

KakaoSearchOk ==
    /\ stage = "SEARCHING"
    /\ \E m \in 0..MaxPlaces :
          LET p == FallbackSearchParams(SearchParams)
              found == KakaoResults(m, p.maxResults) IN
          /\ log' = Append(log, SearchCall("kakaoSearch", p, "ok", Len(found)))
          /\ places' = found
          /\ IF found = <<>>
               THEN /\ stage' = "DONE"
                    /\ diag' = Some(DistanceMatrix(<<>>))
               ELSE /\ stage' = "ACCESSIBILITY"
                    /\ diag' = diag
    /\ UNCHANGED <<req, googleKey, error, failedFrom, faults, geo, center,
                   origins, ranked, oracle, recs, runIn, runOut>>

\* searchPlacesByCategory rethrows as ExternalServiceException, which
\* recommendPlaces passes on to the caller (HTTP 503).
KakaoSearchFail ==
    /\ stage = "SEARCHING"
    /\ faults > 0
    /\ faults' = faults - 1
    /\ \E out \in InjectedSearchFailures :
          log' = Append(log, SearchCall("kakaoSearch",
                                        FallbackSearchParams(SearchParams), out, 0))
    /\ stage' = "FAILED"
    /\ error' = "SERVICE_UNAVAILABLE"
    /\ failedFrom' = "SEARCHING"
    /\ UNCHANGED <<req, googleKey, geo, center, places, origins, ranked, oracle, recs, diag,
                   runIn, runOut>>

\* ---------------------------------------------------------- accessibility
\* GoogleMapsService.isAvailable
isAvailableAlways(key) == TRUE
isAvailable(key) == key

\* What the Distance Matrix API answers for address a and place p when it
\* succeeds.
ProviderDuration(a, p) == 900 * a * p.id * p.id - 300
ProviderDistance(a, p) == 1000 * a + 500 * p.id

\* The element results[0] that the per-origin closure of
\* calculateTransitToPlace returns: a DistanceResult, or nothing when
\* calculateTransitTime returned an empty list ("none") or threw ("throw");
\* when the request times out its catch returns a result with zeros.
TransitResult(out, a, p) ==
    IF out = "ok"
      THEN Some([durationSeconds |-> ProviderDuration(a, p),
                 distanceMeters |-> ProviderDistance(a, p)])
    ELSE IF out \in {"zero", "timeout"}
      THEN Some([durationSeconds |-> 0, distanceMeters |-> 0])
    ELSE None

\* Math.round(15 + Math.random() * 20) lies in 15..35; the model draws the
\* two ends of that range.
RandomMinutes ==
    { FallbackBaseMinutes, FallbackBaseMinutes + FallbackSpreadMinutes }

\* The values drawn in a request: both ends, or the lower end alone when the
\* request is explored with timeouts.
InjectedMinutes == IF WithTimeouts THEN {FallbackBaseMinutes} ELSE RandomMinutes

\* Math.round(x / d) for non-negative integers.
RoundDiv(x, d) == (2 * x + d) \div (2 * d)

\* One element of transitTimes; minutes is the value Math.random() gave.
ResultSucceeded(result) == result # None /\ result[1].durationSeconds > 0

TransitLegTrustsResult(result, a, origin, p, minutes) ==
    IF result # None
      THEN [origin |-> a, transitMode |-> "transit",
            durationSeconds |-> result[1].durationSeconds,
            distanceMeters |-> result[1].distanceMeters]
      ELSE [origin |-> a, transitMode |-> "estimated",
            durationSeconds |-> minutes * 60,
            distanceMeters |->
                RoundDiv(calculateDistance(origin, p.coordinates), 100) * 100]

TransitLeg(result, a, origin, p, minutes) ==
    IF ResultSucceeded(result)
      THEN [origin |-> a, transitMode |-> "transit",
            durationSeconds |-> result[1].durationSeconds,
            distanceMeters |-> result[1].distanceMeters]
      ELSE [origin |-> a, transitMode |-> "estimated",
            durationSeconds |-> minutes * 60,
            distanceMeters |->
                RoundDiv(calculateDistance(origin, p.coordinates), 100) * 100]

RECURSIVE SumDuration(_)
SumDuration(legs) ==
    IF legs = <<>> THEN 0 ELSE Head(legs).durationSeconds + SumDuration(Tail(legs))

AverageMinutesFloor(legs) == SumDuration(legs) \div (60 * Len(legs))

AverageMinutes(legs) == RoundDiv(SumDuration(legs), 60 * Len(legs))

AccessibilityScoreUnclamped(avg) == 10 - ((avg - 15) \div 5)

AccessibilityScore(avg) == Min2(10, Max2(1, 10 - ((avg - 15) \div 5)))

\* The transitInfo record calculateTransitToPlace returns.
TransitInfoAllSucceeded(results, legs) ==
    [averageMinutes |-> AverageMinutes(legs),
     accessibilityScore |-> AccessibilityScore(AverageMinutes(legs)),
     fromAddresses |-> legs,
     calculationMethod |->
         IF \A i \in DOMAIN results : ResultSucceeded(results[i])
           THEN "google_maps_api" ELSE "estimated"]

TransitInfo(results, legs) ==
    [averageMinutes |-> AverageMinutes(legs),
     accessibilityScore |-> AccessibilityScore(AverageMinutes(legs)),
     fromAddresses |-> legs,
     calculationMethod |->
         IF \E i \in DOMAIN results : ResultSucceeded(results[i])
           THEN "google_maps_api" ELSE "estimated"]

\* calculateTransitToPlace for place p: outs[i] is the outcome of the call
\* for origin i and minutes[i] the random fallback value drawn for it.
calculateTransitToPlace(os, addrs, p, outs, minutes) ==
    LET results == [i \in DOMAIN os |-> TransitResult(outs[i], addrs[i], p)]
        legs == [i \in DOMAIN os |->
                    TransitLeg(results[i], addrs[i], os[i], p, minutes[i])]
    IN TransitInfo(results, legs)

\* calculateTransitDistances without a transit provider returns its input.
SkipTransit ==
    /\ stage = "ACCESSIBILITY"
    /\ ~isAvailable(googleKey)
    /\ stage' = "RANKING"
    /\ UNCHANGED <<req, googleKey, error, failedFrom, faults, log, geo, center,
                   places, origins, ranked, oracle, recs, diag, runIn, runOut>>

\* The per-address closure of calculateTransitDistances geocodes the address
\* again through geocodeAddresses([address]) and falls back to the default
\* Seoul coordinate when that throws.
ReGeocode ==
    /\ stage = "ACCESSIBILITY"
    /\ isAvailable(googleKey)
    /\ Len(origins) < req.n
    /\ LET a == Len(origins) + 1 IN
       \/ /\ log' = Append(log, Call("kakaoGeocode", "ACCESSIBILITY", a, "ok"))
          /\ origins' = Append(origins, KakaoCoord(a))
          /\ faults' = faults
       \/ /\ faults > 0
          /\ log' = log \o <<Call("kakaoGeocode", "ACCESSIBILITY", a, "unavailable"),
                             Call("naverGeocode", "ACCESSIBILITY", a, "ok")>>
          /\ origins' = Append(origins, NaverCoord(a))
          /\ faults' = faults - 1
       \/ /\ faults > 1
          /\ log' = log \o <<Call("kakaoGeocode", "ACCESSIBILITY", a, "unavailable"),
                             Call("naverGeocode", "ACCESSIBILITY", a, "unavailable")>>
          /\ origins' = Append(origins, SeoulDefault)
          /\ faults' = faults - 2
    /\ UNCHANGED <<req, googleKey, stage, error, failedFrom, geo, center,
                   places, ranked, oracle, recs, diag, runIn, runOut>>

\* The sets of origins whose transit call may fail in the next place.
FailingSets ==
    IF faults = 0 THEN {{}}
    ELSE { F \in SUBSET (1..req.n) : Cardinality(F) <= faults }

NextPlace ==
    CHOOSE j \in DOMAIN places :
        /\ places[j].transportationAccessibility = None
        /\ \A k \in 1..(j - 1) : places[k].transportationAccessibility # None

\* `await Promise.all(places.map(...))` returns once the closure of every
\* place has returned; j is the place whose closure returned last.
FirstPlaceAnalysed(j, n) == TRUE

AllPlacesAnalysed(j, n) == j = n

\* One place of the Promise.all in calculateTransitDistances: its N transit
\* calls settle and its summary is attached.  With the last place
\* calculateTransitDistances returns and the ranking starts.
TransitToPlace ==
    /\ stage = "ACCESSIBILITY"
    /\ isAvailable(googleKey)
    /\ Len(origins) = req.n
    /\ \E F \in FailingSets :
       \E kinds \in [F -> InjectedTransitFailures], rnd \in [F -> InjectedMinutes] :
          LET j == NextPlace
              p == places[j]
              outs == [i \in 1..req.n |->
                         IF ~googleKey THEN "throw"
                         ELSE IF i \in F THEN kinds[i] ELSE "ok"]
              minutes == [i \in 1..req.n |->
                            IF i \in F THEN rnd[i] ELSE FallbackBaseMinutes]
              info == calculateTransitToPlace(origins, Addresses(req), p, outs, minutes)
          IN /\ googleKey \/ F = {}
             /\ places' = [places EXCEPT ![j].transportationAccessibility = Some(info)]
             /\ log' = log \o [i \in 1..req.n |->
                                  TransitCall(i, origins[i], PlaceKey(p), outs[i])]
             /\ faults' = faults - Cardinality(F)
             /\ stage' = IF AllPlacesAnalysed(j, Len(places)) THEN "RANKING" ELSE stage
    /\ UNCHANGED <<req, googleKey, error, failedFrom, geo, center, origins,
                   ranked, oracle, recs, diag, runIn, runOut>>

\* ---------------------------------------------------------------- ranking
\* One element of the JSON array in the oracle's answer.  isNull: the element
\* is null; indexIsNumber: typeof placeIndex === 'number'; score: the value
\* of aiRecommendationScore (Undefined when the field is missing); reason:
\* the reason text, ABSENT when the field is not a string.
Entry(isNum, idx, score, reason) ==
    [isNull |-> FALSE, indexIsNumber |-> isNum, placeIndex |-> idx,
     aiRecommendationScore |-> score, reasonIsString |-> reason # ABSENT,
     reason |-> reason]
NullEntry ==
    [isNull |-> TRUE, indexIsNumber |-> FALSE, placeIndex |-> 0,
     aiRecommendationScore |-> Undefined, reasonIsString |-> FALSE,
     reason |-> ABSENT]

\* The JSON arrays the oracle is taken to answer with: empty, well formed
\* (in and out of score order, with a repeated index), with entries that are
\* discarded (index 0, index past the list, non-string reason, missing
\* score) and with a null element.
E1 == Entry(TRUE, 1, 7, "close to everyone")
E2 == Entry(TRUE, 2, 9, "best rated")
EZero == Entry(TRUE, 0, 8, "index zero")
EPast == Entry(TRUE, MaxPlaces + 1, 8, "index past the list")
ENoReason == Entry(TRUE, 2, Undefined, ABSENT)
ENoIndex == Entry(FALSE, 0, 6, "index is a string")

EntrySeqs ==
    { <<>>, <<E1>>, <<E1, E2>>, <<E2, E1>>, <<E1, E1>>, <<EZero>>, <<EPast, ENoIndex>>,
      <<ENoReason>>, <<E1, ENoReason>>, <<NullEntry, E1>> }

\* What bedrockService.generateResponse does: it throws, or returns a text
\* without any [...] substring ("noarray"), a text whose first [...]
\* substring is not valid JSON ("malformed"), or a text whose first [...]
\* substring is the JSON array `entries`.  A call that times out throws as
\* well ("timeout").
OracleOutputs ==
    { [kind |-> k, entries |-> <<>>] :
         k \in {"throw", "timeout", "noarray", "malformed"} }
    \cup { [kind |-> "array", entries |-> es] : es \in EntrySeqs }

\* The answers explored inside a full request: a call that throws, a text
\* without an array, a well-formed array and one repeating an index (and,
\* with timeouts, a call that times out or a well-formed array).
RequestOracleOutputs ==
    IF WithTimeouts
      THEN { o \in OracleOutputs :
               \/ o.kind = "timeout"
               \/ o.kind = "array" /\ o.entries = <<E1, E2>> }
      ELSE { o \in OracleOutputs :
               \/ o.kind \in {"throw", "noarray"}
               \/ o.kind = "array" /\ o.entries \in { <<E1, E2>>, <<E1, E1>> } }

\* Array.prototype.sort with the comparator (a, b) => key(b) - key(a): a
\* stable sort by non-increasing key; keys[i] is the key of s[i].
SortAscending(s, keys) ==
    LET Rank(i) == 1 + Cardinality({ j \in DOMAIN s :
                         keys[j] < keys[i] \/ (keys[j] = keys[i] /\ j < i) })
    IN [r \in DOMAIN s |-> s[CHOOSE i \in DOMAIN s : Rank(i) = r]]

SortDescending(s, keys) ==
    LET Rank(i) == 1 + Cardinality({ j \in DOMAIN s :
                         keys[j] > keys[i] \/ (keys[j] = keys[i] /\ j < i) })
    IN [r \in DOMAIN s |-> s[CHOOSE i \in DOMAIN s : Rank(i) = r]]

Slice(s, k) == SubSeq(s, 1, Min2(k, Len(s)))

\* `rec.aiRecommendationScore || 0`
ScoreOrZero(e) ==
    IF e.aiRecommendationScore = Undefined THEN 0 ELSE e.aiRecommendationScore

parseAIRecommendationsKeepAll(o) ==
    IF o.kind # "array" THEN <<>>
    ELSE IF \E i \in DOMAIN o.entries : o.entries[i].isNull THEN <<>>
    ELSE SortDescending(o.entries,
                        [i \in DOMAIN o.entries |-> ScoreOrZero(o.entries[i])])

parseAIRecommendations(o) ==
    IF o.kind # "array" THEN <<>>
    ELSE IF \E i \in DOMAIN o.entries : o.entries[i].isNull THEN <<>>
    ELSE LET kept == SelectSeq(o.entries,
                       LAMBDA e : e.indexIsNumber /\ e.reasonIsString)
         IN SortDescending(kept, [i \in DOMAIN kept |-> ScoreOrZero(kept[i])])

\* The catch block of generateAIRecommendations: places.sort(...) in place,
\* then slice(0, maxResults).
FallbackSorted(ps) ==
    SortDescending(ps, [i \in DOMAIN ps |-> ScoreOrDefault(ps[i])])

\* The try block of generateAIRecommendations after the oracle answered.
ApplyRecommendations(o, ps, maxResults) ==
    LET parsed == parseAIRecommendations(o)
        inRange == SelectSeq(parsed,
                     LAMBDA e : e.placeIndex > 0 /\ e.placeIndex <= Len(ps))
        mapped == [i \in DOMAIN inRange |->
                     [ps[inRange[i].placeIndex] EXCEPT
                         !.aiRecommendationScore = inRange[i].aiRecommendationScore,
                         !.aiAnalysis = inRange[i].reason]]
    IN Slice(mapped, maxResults)

\* generateAIRecommendations: the list it returns, the caller's list after
\* the call, and whether the oracle was asked.
generateAIRecommendationsAlwaysAsks(o, ps, maxResults) ==
    IF o.kind \in {"throw", "timeout"}
      THEN [result |-> Slice(FallbackSorted(ps), maxResults),
            places |-> FallbackSorted(ps), asked |-> TRUE]
      ELSE [result |-> ApplyRecommendations(o, ps, maxResults), places |-> ps,
            asked |-> TRUE]

generateAIRecommendations(o, ps, maxResults) ==
    IF ps = <<>>
      THEN [result |-> <<>>, places |-> ps, asked |-> FALSE]
    ELSE IF o.kind \in {"throw", "timeout"}
      THEN [result |-> Slice(FallbackSorted(ps), maxResults),
            places |-> FallbackSorted(ps), asked |-> TRUE]
      ELSE [result |-> ApplyRecommendations(o, ps, maxResults), places |-> ps,
            asked |-> TRUE]

\* Step 4 of getPlaceRecommendations, and the response recommendPlaces
\* builds from its result.
GenerateAIRecommendations ==
    /\ stage = "RANKING"
    /\ \E o \in RequestOracleOutputs :
          LET r == generateAIRecommendations(o, places, MaxResultsOf(req)) IN
          /\ log' = IF r.asked THEN Append(log, Call("oracle", "RANKING", 0, o.kind))
                     ELSE log
          /\ oracle' = IF r.asked THEN Some(o) ELSE oracle
          /\ ranked' = places
          /\ recs' = r.result
          /\ places' = r.places
          /\ diag' = Some(DistanceMatrix(r.result))
    /\ stage' = "DONE"
    /\ UNCHANGED <<req, googleKey, error, failedFrom, faults, geo, center,
                   origins, runIn, runOut>>

\* ------------------------------------- the recommendation engine on its own
\* generateAIRecommendations called with a list of its caller's choice: no
\* place, or places without a summary, with a provider summary or with an
\* estimated one.
EnginePlace(k, v) ==
    IF v = "bare" THEN Place("kakao", k)
    ELSE [Place("google", k) EXCEPT !.transportationAccessibility =
            Some(calculateTransitToPlace(<<KakaoCoord(1)>>, <<1>>, Place("google", k),
                   <<IF v = "provider" THEN "ok" ELSE "none">>,
                   <<FallbackBaseMinutes + FallbackSpreadMinutes>>))]

EngineInputs ==
    UNION { { [k \in 1..m |-> EnginePlace(k, vs[k])] :
                 vs \in [1..m -> {"bare", "provider", "estimated"}] } :
            m \in 0..MaxPlaces }

EngineInit ==
    /\ req \in { Request(1, p) : p \in ValidParams }
    /\ googleKey = TRUE
    /\ stage = "ENGINE"
    /\ error = "none"
    /\ failedFrom = "none"
    /\ faults = 0
    /\ log = <<>>
    /\ geo = <<>>
    /\ center = None
    /\ places \in EngineInputs
    /\ origins = <<>>
    /\ ranked = <<>>
    /\ oracle = None
    /\ recs = <<>>
    /\ diag = None
    /\ runIn = NoRun
    /\ runOut = <<None, None>>

CallEngine ==
    /\ stage = "ENGINE"
    /\ \E o \in OracleOutputs :
          LET r == generateAIRecommendations(o, places, MaxResultsOf(req)) IN
          /\ log' = IF r.asked THEN Append(log, Call("oracle", "RANKING", 0, o.kind))
                     ELSE log
          /\ oracle' = IF r.asked THEN Some(o) ELSE oracle
          /\ ranked' = places
          /\ recs' = r.result
          /\ places' = r.places
    /\ stage' = "RETURNED"
    /\ UNCHANGED <<req, googleKey, error, failedFrom, faults, geo, center,
                   origins, diag, runIn, runOut>>

\* ------------------------------------------- the accessibility stage, twice
\* Two requests with the same addresses, origin coordinates and places, and a
\* transit provider that fails every call.
RunInputs == { [n |-> k, m |-> l] : k \in 1..MaxAddrs, l \in 1..MaxPlaces }

RunsInit ==
    /\ req = [n |-> 0, radius |-> Undefined, maxResults |-> Undefined,
              placeType |-> ABSENT]
    /\ googleKey = TRUE
    /\ stage = "IDLE"
    /\ error = "none"
    /\ failedFrom = "none"
    /\ faults = 0
    /\ log = <<>>
    /\ geo = <<>>
    /\ center = None
    /\ places = <<>>
    /\ origins = <<>>
    /\ ranked = <<>>
    /\ oracle = None
    /\ recs = <<>>
    /\ diag = None
    /\ runIn \in RunInputs
    /\ runOut = <<None, None>>

RunAccessibility(r) ==
    /\ stage = "IDLE"
    /\ runOut[r] = None
    /\ \E kind \in {"zero", "none"} :
       \E rnd \in [1..runIn.m -> [1..runIn.n -> RandomMinutes]] :
          LET os == [i \in 1..runIn.n |-> KakaoCoord(i)]
              addrs == [i \in 1..runIn.n |-> i]
              outs == [i \in 1..runIn.n |-> kind]
          IN runOut' = [runOut EXCEPT ![r] =
                 Some([j \in 1..runIn.m |->
                    [Place("google", j) EXCEPT !.transportationAccessibility =
                        Some(calculateTransitToPlace(os, addrs, Place("google", j),
                                                     outs, rnd[j]))]])]
    /\ UNCHANGED <<pipeVars, runIn>>

NextRuns == \E r \in {1, 2} : RunAccessibility(r)

SpecTwoRuns == RunsInit /\ [][NextRuns]_vars

\* ------------------------------------ the transit calls of one analysis
\* calculateTransitDistances issues, for each of its M places, a call per
\* origin; the N * M calls are in flight together and settle in any order.
\* runIn holds the size of the analysis, the outcome of the call of each
\* origin and the value Math.random() gives; runOut holds, per place, the
\* calls settled so far in the order of their completion.
InterleavedInputs ==
    { [n |-> k, m |-> l, outs |-> o, minutes |-> r] :
         k \in 1..MaxAddrs, l \in 1..MaxPlaces,
         o \in [1..MaxAddrs -> {"ok", "zero", "none"}], r \in RandomMinutes }

InterleavedInit ==
    /\ runIn \in InterleavedInputs
    /\ req = Request(runIn.n, BoundaryParams)
    /\ googleKey = TRUE
    /\ stage = "ACCESSIBILITY"
    /\ error = "none"
    /\ failedFrom = "none"
    /\ faults = 0
    /\ log = <<>>
    /\ geo = <<>>
    /\ center = None
    /\ places = [j \in 1..runIn.m |-> Place("google", j)]
    /\ origins = [i \in 1..runIn.n |-> KakaoCoord(i)]
    /\ ranked = <<>>
    /\ oracle = None
    /\ recs = <<>>
    /\ diag = None
    /\ runOut = [j \in 1..runIn.m |-> <<>>]

SettledOrigins(j) == { runOut[j][k].index : k \in DOMAIN runOut[j] }

\* The call for origin i and place j settles: the closure of origin i returns
\* results[0], or null.
SettleTransitCall(j, i) ==
    /\ stage = "ACCESSIBILITY"
    /\ i \notin SettledOrigins(j)
    /\ runOut' = [runOut EXCEPT ![j] =
           Append(@, [index |-> i,
                      value |-> TransitResult(runIn.outs[i], i, places[j])])]
    /\ UNCHANGED <<pipeVars, runIn>>

\* The array `await Promise.all(origins.map(...))` gives: the value of each
\* closure at the index of its origin, whatever the order of completion.
PromiseAllInCompletionOrder(settled) ==
    [k \in DOMAIN settled |-> settled[k].value]

PromiseAll(settled) ==
    [i \in DOMAIN settled |->
        settled[CHOOSE k \in DOMAIN settled : settled[k].index = i].value]

\* Promise.all of place j resolves once its N calls have settled; the legs
\* and the summary are built from its array and attached to the place.
FinalizePlace(j) ==
    /\ stage = "ACCESSIBILITY"
    /\ places[j].transportationAccessibility = None
    /\ SettledOrigins(j) = 1..runIn.n
    /\ LET results == PromiseAll(runOut[j])
           legs == [i \in 1..runIn.n |->
                      TransitLeg(results[i], Addresses(req)[i], origins[i],
                                 places[j], runIn.minutes)]
       IN places' = [places EXCEPT
                        ![j].transportationAccessibility = Some(TransitInfo(results, legs))]
    /\ stage' = IF \A k \in DOMAIN places :
                      k # j => places[k].transportationAccessibility # None
                  THEN "RANKING" ELSE stage
    /\ UNCHANGED <<req, googleKey, error, failedFrom, faults, log, geo, center,
                   origins, ranked, oracle, recs, diag, runIn, runOut>>

NextInterleaved ==
    \E j \in 1..MaxPlaces :
        \/ /\ j <= runIn.m
           /\ \E i \in 1..runIn.n : SettleTransitCall(j, i)
        \/ /\ j <= runIn.m
           /\ FinalizePlace(j)

SpecInterleaved == InterleavedInit /\ [][NextInterleaved]_vars

\* ------------------------------------------------ functions on their own
\* Place names are sequences of characters (numbers).  NameA2 differs from
\* NameA in two of ten characters, NameA3 in three, NameB in all.
NameA == <<1, 2, 3, 4, 5, 6, 7, 8, 9, 10>>
NameA2 == <<1, 2, 3, 4, 5, 6, 7, 8, 11, 12>>
NameA3 == <<1, 2, 3, 4, 5, 6, 7, 11, 12, 13>>
NameB == <<21, 22, 23>>

\* Math.min of the deletion, insertion and substitution costs.
Min3WithoutSubstitution(a, b, c) == Min2(a, b)

Min3(a, b, c) == Min2(a, Min2(b, c))

\* One row matrix[j] of getEditDistance from the row above it; acc holds
\* the cells already filled in.
RECURSIVE EditRow(_, _, _, _)
EditRow(prev, str1, ch, acc) ==
    IF Len(acc) = Len(str1) + 1 THEN acc
    ELSE LET i == Len(acc)
             indicator == IF str1[i] = ch THEN 0 ELSE 1
         IN EditRow(prev, str1, ch,
                    Append(acc, Min3(acc[i] + 1, prev[i + 1] + 1, prev[i] + indicator)))

RECURSIVE EditRows(_, _, _, _)
EditRows(prev, str1, str2, j) ==
    IF j > Len(str2) THEN prev
    ELSE EditRows(EditRow(prev, str1, str2[j], <<j>>), str1, str2, j + 1)

getEditDistance(str1, str2) ==
    EditRows([i \in 1..(Len(str1) + 1) |-> i - 1], str1, str2, 1)[Len(str1) + 1]

\* calculateSimilarity, as the fraction num / den.
calculateSimilarity(str1, str2) ==
    LET longer == IF Len(str1) > Len(str2) THEN str1 ELSE str2
        shorter == IF Len(str1) > Len(str2) THEN str2 ELSE str1
    IN IF Len(longer) = 0 THEN [num |-> 1, den |-> 1]
       ELSE [num |-> Len(longer) - getEditDistance(longer, shorter),
             den |-> Len(longer)]

\* The callback of allPlaces.some(...) in mergePlaceSources:
\* similarity > 0.7 and distance < 100.
IsSamePlaceEither(existing, naverPlace) ==
    LET sim == calculateSimilarity(existing.name, naverPlace.name)
    IN \/ 10 * sim.num > 7 * sim.den
       \/ calculateDistance(existing.coordinates, naverPlace.coordinates) < 100

IsSamePlace(existing, naverPlace) ==
    LET sim == calculateSimilarity(existing.name, naverPlace.name)
    IN /\ 10 * sim.num > 7 * sim.den
       /\ calculateDistance(existing.coordinates, naverPlace.coordinates) < 100

RECURSIVE MergeInto(_, _)
MergeInto(allPlaces, naverPlaces) ==
    IF naverPlaces = <<>> THEN allPlaces
    ELSE LET naverPlace == Head(naverPlaces)
             exists == \E i \in DOMAIN allPlaces : IsSamePlace(allPlaces[i], naverPlace)
         IN MergeInto(IF exists THEN allPlaces ELSE Append(allPlaces, naverPlace),
                      Tail(naverPlaces))

mergePlaceSourcesConcat(kakaoPlaces, naverPlaces) == kakaoPlaces \o naverPlaces

mergePlaceSources(kakaoPlaces, naverPlaces) == MergeInto(kakaoPlaces, naverPlaces)

\* The places handed to mergePlaceSources: a place, a namesake 154 m away,
\* a similar name 99 m away, a name of similarity 0.7 at the same spot, a
\* similar name exactly 100 m away and another name at the same spot.
NamedPlace(name, dlat, dlng) ==
    [name |-> name, coordinates |-> Coord(375600 + dlat, 1270800 + dlng)]

PlaceHere == NamedPlace(NameA, 0, 0)
PlaceNamesakeFar == NamedPlace(NameA, 14, 0)
PlaceSimilarNear == NamedPlace(NameA2, 9, 0)
PlaceLessSimilarHere == NamedPlace(NameA3, 0, 0)
PlaceSimilarAtLimit == NamedPlace(NameA2, 5, 5)
PlaceOtherHere == NamedPlace(NameB, 0, 0)

MergePool ==
    { PlaceHere, PlaceNamesakeFar, PlaceSimilarNear, PlaceLessSimilarHere,
      PlaceSimilarAtLimit, PlaceOtherHere }

SeqsUpTo(S, n) == UNION { [1..k -> S] : k \in 0..n }

\* Primary lists over two matching places with every secondary list, and
\* every list with itself.
MergeInputs ==
    { [fn |-> "merge", primary |-> ps, secondary |-> ss] :
         ps \in SeqsUpTo({PlaceHere, PlaceSimilarNear}, MaxPlaces),
         ss \in SeqsUpTo(MergePool, MaxPlaces) }
    \cup
    { [fn |-> "merge", primary |-> ps, secondary |-> ps] :
         ps \in SeqsUpTo(MergePool, MaxPlaces) }

\* The coordinate lists handed to calculateCenterPoint.
PointPool ==
    { KakaoCoord(1), KakaoCoord(2), NaverCoord(1), Coord(600, 1200),
      Coord(0 - 600, 0 - 1200) }

CenterInputs ==
    { [fn |-> "center", points |-> cs] : cs \in SeqsUpTo(PointPool, MaxAddrs) }

\* What the Distance Matrix API answers to one request: the request fails
\* on the network or times out ("network"), or a body arrives with a
\* top-level status and, for status OK, one row of elements.  An element has
\* a status and, when it is OK, a duration and a distance (0 stands for a
\* missing value).
Element(st, duration, distance) ==
    [status |-> st, duration |-> duration, distance |-> distance]

ElementPool ==
    { Element("OK", 600, 1500), Element("OK", 0, 0), Element("ZERO_RESULTS", 0, 0) }

Responses(n) ==
    { [kind |-> "network", status |-> "none", rows |-> <<>>],
      [kind |-> "body", status |-> "OVER_QUERY_LIMIT", rows |-> <<>>],
      [kind |-> "body", status |-> "OK", rows |-> <<>>] }
    \cup { [kind |-> "body", status |-> "OK", rows |-> <<els>>] :
              els \in [1..n -> ElementPool] }

\* The result with the degraded values of a failed destination.
DegradedResult(dest) ==
    [destination |-> dest, durationSeconds |-> 0, distanceMeters |-> 0]

\* GoogleMapsService.calculateTransitTime
calculateTransitTime(apiKey, destinations, response) ==
    IF ~apiKey THEN [threw |-> TRUE, results |-> <<>>]
    ELSE IF destinations = <<>> THEN [threw |-> FALSE, results |-> <<>>]
    ELSE IF response.kind = "network"
      THEN [threw |-> FALSE,
            results |-> [i \in DOMAIN destinations |-> DegradedResult(destinations[i])]]
    ELSE IF response.status = "OK" /\ Len(response.rows) > 0
      THEN [threw |-> FALSE,
            results |-> [i \in DOMAIN response.rows[1] |->
                LET el == response.rows[1][i] IN
                IF el.status = "OK"
                  THEN [destination |-> destinations[i],
                        durationSeconds |-> el.duration,
                        distanceMeters |-> el.distance]
                  ELSE DegradedResult(destinations[i])]]
    ELSE [threw |-> FALSE, results |-> <<>>]

\* The calls of calculateTransitTime: with and without an API key, zero or
\* more destinations and every answer of the provider.
TransitTimeInputs ==
    UNION { { [fn |-> "transitTime", apiKey |-> k, destinations |-> ds,
               response |-> r] : k \in BOOLEAN, r \in Responses(Len(ds)) } :
            ds \in SeqsUpTo({PlaceHere.coordinates, PlaceNamesakeFar.coordinates},
                            MaxPlaces) }

\* The strings handed to getEditDistance and calculateSimilarity: "kitten"
\* and "sitting" (letters by their position in the alphabet) and every
\* string of at most MaxLen letters over {1, 2}.
Kitten == <<11, 9, 20, 20, 5, 14>>
Sitting == <<19, 9, 20, 20, 9, 14, 7>>

EditInputs ==
    { [fn |-> "edit", a |-> a, b |-> b] :
         a \in SeqsUpTo({1, 2}, MaxLen), b \in SeqsUpTo({1, 2}, MaxLen) }
    \cup { [fn |-> "edit", a |-> Kitten, b |-> Sitting],
           [fn |-> "edit", a |-> Sitting, b |-> Kitten] }

FunctionsInit ==
    /\ req = [n |-> 0, radius |-> Undefined, maxResults |-> Undefined,
              placeType |-> ABSENT]
    /\ googleKey = TRUE
    /\ stage = "IDLE"
    /\ error = "none"
    /\ failedFrom = "none"
    /\ faults = 0
    /\ log = <<>>
    /\ geo = <<>>
    /\ center = None
    /\ places = <<>>
    /\ origins = <<>>
    /\ ranked = <<>>
    /\ oracle = None
    /\ recs = <<>>
    /\ diag = None
    /\ runIn \in MergeInputs \cup CenterInputs \cup TransitTimeInputs \cup EditInputs
    /\ runOut = None

\* mergePlaceSources(primary, secondary), and the result merged once more
\* with the same secondary list.
MergePlaceSources ==
    /\ runIn.fn = "merge"
    /\ runOut = None
    /\ LET merged == mergePlaceSources(runIn.primary, runIn.secondary)
       IN runOut' = Some([merged |-> merged,
                          remerged |-> mergePlaceSources(merged, runIn.secondary)])
    /\ UNCHANGED <<pipeVars, runIn>>

CalculateCenterPoint ==
    /\ runIn.fn = "center"
    /\ runOut = None
    /\ runOut' = Some(calculateCenterPoint(runIn.points))
    /\ UNCHANGED <<pipeVars, runIn>>

CalculateTransitTime ==
    /\ runIn.fn = "transitTime"
    /\ runOut = None
    /\ runOut' = Some(calculateTransitTime(runIn.apiKey, runIn.destinations,
                                           runIn.response))
    /\ UNCHANGED <<pipeVars, runIn>>

\* getEditDistance in both directions, and calculateSimilarity.
CalculateSimilarity ==
    /\ runIn.fn = "edit"
    /\ runOut = None
    /\ runOut' = Some([distance |-> getEditDistance(runIn.a, runIn.b),
                       reverse |-> getEditDistance(runIn.b, runIn.a),
                       similarity |-> calculateSimilarity(runIn.a, runIn.b)])
    /\ UNCHANGED <<pipeVars, runIn>>

NextFunctions ==
    \/ MergePlaceSources
    \/ CalculateCenterPoint
    \/ CalculateTransitTime
    \/ CalculateSimilarity

SpecFunctions == FunctionsInit /\ [][NextFunctions]_vars

Next ==
    \/ ValidationPipe
    \/ ControllerValidate
    \/ GeocodeKakaoOk
    \/ GeocodeKakaoFail
    \/ GeocodeNaverOk
    \/ GeocodeNaverFail
    \/ ComputeCentroid
    \/ GoogleSearchOk
    \/ GoogleSearchFail
    \/ KakaoSearchOk
    \/ KakaoSearchFail
    \/ SkipTransit
    \/ ReGeocode
    \/ TransitToPlace
    \/ GenerateAIRecommendations

Spec == Init /\ [][Next]_vars

\* A request whose external calls may fail or time out.  Every call returns,
\* fails or times out, so the step that awaits it is eventually taken.
TimeoutsInit ==
    /\ PipeInit
    /\ req \in { Request(k, DefaultParams) : k \in 1..MaxAddrs }
    /\ runIn = TimeoutsOn
    /\ runOut = <<None, None>>

SpecTimeouts == TimeoutsInit /\ [][Next]_vars /\ WF_vars(Next)

\* A request through the controller, or a direct call of the engine.
NextRequestOrEngine == Next \/ CallEngine

SpecRequestOrEngine == (Init \/ EngineInit) /\ [][NextRequestOrEngine]_vars

\* ================================================================= claims
Range(f) == { f[i] : i \in DOMAIN f }

FailedCalls(svcs) == { i \in CallsOf(svcs) : log[i].out # "ok" }

\* The score a place is ranked by in the fallback, as the specification
\* words it: the accessibility score, a missing one counting as 5.
RankScore(p) ==
    IF p.transportationAccessibility = None THEN 5
    ELSE p.transportationAccessibility[1].accessibilityScore

NonIncreasing(rs) ==
    \A i \in DOMAIN rs : \A j \in DOMAIN rs : i < j => RankScore(rs[i]) >= RankScore(rs[j])

ZeroValidEntries ==
    /\ oracle # None
    /\ oracle[1].kind # "throw"
    /\ SelectSeq(parseAIRecommendations(oracle[1]),
                 LAMBDA e : e.placeIndex > 0 /\ e.placeIndex <= Len(ranked)) = <<>>

\* C2: for a non-empty place list, when zero valid entries are parsed from the
\* oracle's text, generateAIRecommendations returns exactly
\* min(maxResults, len(places)) places in non-increasing accessibility score.
C2_ZeroEntriesFallBackToAccessibility ==
    (stage = "DONE" /\ ranked # <<>> /\ ZeroValidEntries) =>
        /\ Len(recs) = Min2(MaxResultsOf(req), Len(ranked))
        /\ NonIncreasing(recs)

\* C3: when the oracle call throws, generateAIRecommendations returns
\* min(maxResults, len(places)) of the input places, the best ones, in
\* non-increasing accessibility score (missing = 5), none of them carrying
\* aiRecommendationScore or aiAnalysis.
C3_OracleFailureFallsBack ==
    (stage = "DONE" /\ oracle # None /\ oracle[1].kind = "throw") =>
        /\ Len(recs) = Min2(MaxResultsOf(req), Len(ranked))
        /\ Range(recs) \subseteq Range(ranked)
        /\ Cardinality(Range(recs)) = Len(recs)
        /\ NonIncreasing(recs)
        /\ \A p \in Range(ranked) \ Range(recs) :
              \A q \in Range(recs) : RankScore(q) >= RankScore(p)
        /\ \A q \in Range(recs) :
              q.aiRecommendationScore = Undefined /\ q.aiAnalysis = ABSENT

C3_Witness ==
    /\ stage = "DONE"
    /\ oracle # None /\ oracle[1].kind = "throw"
    /\ Len(ranked) = 2 /\ Len(recs) = 1
    /\ RankScore(ranked[1]) < RankScore(ranked[2])

\* C4: two runs of the accessibility stage on the same addresses, origins and
\* places, with a transit provider that fails every call, give the same legs,
\* average transit times and accessibility scores.
C4_FallbackDeterminism ==
    (runOut[1] # None /\ runOut[2] # None) => runOut[1] = runOut[2]

AllEstimated(p) ==
    /\ p.transportationAccessibility # None
    /\ p.transportationAccessibility[1].calculationMethod = "estimated"
    /\ \A l \in Range(p.transportationAccessibility[1].fromAddresses) :
          l.transitMode = "estimated"

GeoCalls(a) ==
    SelectSeq(log, LAMBDA c : c.svc \in GeocodeSvcs /\ c.stage = "GEOCODING" /\ c.arg = a)

GeoResolved(a) == a <= Len(geo)
GeoExhausted(a) == a = Len(geo) + 1 /\ error = "GEOCODING_ALL_FAILED"

\* C6: per address, Kakao is called first; Naver is called if and only if the
\* Kakao call failed (not found or unavailable); the address resolves to the
\* result of the first provider that succeeded; it fails with the
\* all-providers-failed error if and only if both calls failed.
C6_GeocodingFallbackChain ==
    \A a \in 1..req.n :
        LET cs == GeoCalls(a) IN
        /\ Len(cs) <= 2
        /\ cs # <<>> => cs[1].svc = "kakaoGeocode"
        /\ Len(cs) = 2 => cs[2].svc = "naverGeocode" /\ cs[1].out \in GeocodeFailures
        /\ (GeoResolved(a) \/ GeoExhausted(a)) =>
              /\ cs # <<>>
              /\ Len(cs) = 2 <=> cs[1].out \in GeocodeFailures
        /\ GeoResolved(a) =>
              /\ cs[Len(cs)].out = "ok"
              /\ geo[a].via = (IF cs[1].out = "ok" THEN "kakao" ELSE "naver")
              /\ geo[a].coordinates =
                    (IF cs[1].out = "ok" THEN KakaoCoord(a) ELSE NaverCoord(a))
        /\ GeoExhausted(a) <=>
              (Len(cs) = 2 /\ \A i \in 1..2 : cs[i].out \in GeocodeFailures)

C6_Witness ==
    /\ Len(geo) = 2
    /\ geo[1].via = "kakao"
    /\ geo[2].via = "naver"
    /\ GeoCalls(2)[1].out = "notfound"

\* An address of the request that neither provider resolved.
Unresolved(a) ==
    LET cs == GeoCalls(a)
    IN  Len(cs) = 2 /\ cs[1].out \in GeocodeFailures /\ cs[2].out \in GeocodeFailures

\* C7: if some address is resolved by neither provider, the request ends in
\* FAILED with the geocoding error, and no place search, transit call or
\* oracle call is issued, then or later.
C7_GeocodingFailsFast ==
    (\E a \in 1..req.n : Unresolved(a)) =>
        /\ stage = "FAILED"
        /\ failedFrom = "GEOCODING"
        /\ error = "GEOCODING_ALL_FAILED"
        /\ CallsOf(SearchSvcs \cup {"transit", "oracle", "reverseGeocode"}) = {}
        /\ ~ENABLED Next

C7_Witness ==
    /\ stage = "FAILED"
    /\ error = "GEOCODING_ALL_FAILED"
    /\ Len(geo) = 1
    /\ Unresolved(2)

\* The input errors of the specification.
InputError(r) ==
    \/ r.n = 0
    \/ r.n > 20
    \/ r.radius # Undefined /\ (r.radius < 100 \/ r.radius > 20000)
    \/ r.maxResults # Undefined /\ (r.maxResults < 1 \/ r.maxResults > 50)

\* C8: a request with 0 or more than 20 addresses, a radius outside
\* [100, 20000] or a result limit outside [1, 50] is rejected with an input
\* error before any external call; any other request is not rejected.
C8_InputErrorsRejectedBeforeIO ==
    /\ stage \in {"VALIDATING", "CONTROLLER", "REJECTED"} => log = <<>>
    /\ stage \notin {"VALIDATING", "CONTROLLER"} =>
          /\ InputError(req) <=> stage = "REJECTED"
          /\ stage = "REJECTED" <=>
                error \in {"VALIDATION_ERROR", "EMPTY_ADDRESSES", "TOO_MANY_ADDRESSES"}

C8_Witness ==
    /\ req.n = 21
    /\ stage = "REJECTED"
    /\ error = "TOO_MANY_ADDRESSES"

\* C9: when the search leaves the candidate set empty, one broadened search
\* (larger radius or a keyword query) is issued before the pipeline goes on.
C9_EmptyResultBroadensSearch ==
    (stage = "DONE" /\ places = <<>>) =>
        \E i \in DOMAIN log :
            /\ log[i].params # None
            /\ \/ log[i].svc = "keywordSearch"
               \/ log[i].svc \in SearchSvcs /\ log[i].params[1].radiusMeters > RadiusOf(req)

\* C10: the Kakao category search is queried if and only if the Google
\* nearby search failed, with the same centre, place type, radius and limit;
\* when Google succeeds its result list, even if empty, is the candidate set.
C10_PlaceSearchFallback ==
    LET G == CallsOf({"googleSearch"})
        K == CallsOf({"kakaoSearch"})
    IN /\ Cardinality(G) <= 1 /\ Cardinality(K) <= 1
       /\ \A k \in K : \E g \in G :
             /\ g < k
             /\ log[g].out # "ok"
             /\ log[k].params = log[g].params
       /\ \A g \in G :
             /\ log[g].params[1] =
                   [center |-> center[1].coordinates,
                    placeType |-> IF req.placeType = ABSENT THEN "restaurant"
                                  ELSE req.placeType,
                    radiusMeters |-> IF req.radius = Undefined THEN 2000 ELSE req.radius,
                    maxResults |-> 2 * (IF req.maxResults = Undefined THEN 10
                                        ELSE req.maxResults)]
             /\ (log[g].out # "ok" /\ stage # "SEARCHING") => K # {}
             /\ log[g].out = "ok" =>
                   /\ K = {}
                   /\ Len(places) = log[g].arg
                   /\ \A p \in Range(places) : p.source = "google"
                   /\ log[g].arg = 0 => stage = "DONE" /\ recs = <<>>

C10_Witness ==
    /\ stage = "ACCESSIBILITY"
    /\ \E k \in CallsOf({"kakaoSearch"}) : log[k].out = "ok" /\ log[k].arg = 2
    /\ req.radius = 100

\* An entry of the oracle's array that the engine may use for a list of n
\* places.
ValidEntry(e, n) ==
    /\ ~e.isNull
    /\ e.indexIsNumber
    /\ e.reasonIsString
    /\ e.placeIndex >= 1 /\ e.placeIndex <= n

\* aiRecommendationScore of a result element, a missing one counting as 0.
AiScore(p) == IF p.aiRecommendationScore = Undefined THEN 0 ELSE p.aiRecommendationScore

C12_EmptyListSkipsOracle ==
    /\ (stage = "RETURNED" /\ ranked = <<>>) =>
          /\ recs = <<>>
          /\ oracle = None
          /\ CallsOf({"oracle"}) = {}
    /\ (\E i \in CallsOf(SearchSvcs) : log[i].out = "ok" /\ log[i].arg = 0) =>
          /\ stage = "DONE"
          /\ recs = <<>>
          /\ CallsOf({"transit", "oracle"}) = {}
          /\ \A i \in DOMAIN log : log[i].stage \notin {"ACCESSIBILITY", "RANKING"}

C12_Witness ==
    /\ stage = "RETURNED"
    /\ ranked = <<>>
    /\ recs = <<>>
    /\ log = <<>>

\* The accessibility summaries attached to a place, in the candidate list or
\* in the response.
Summaries ==
    { p.transportationAccessibility[1] :
        p \in { q \in Range(places) \cup Range(recs) : q.transportationAccessibility # None } }

\* m is x / d rounded to the nearest integer, a half rounding up.
IsRounded(m, x, d) == 2 * d * m - d <= 2 * x /\ 2 * x < 2 * d * m + d

\* f is the largest integer not above x / d.
IsFloor(f, x, d) == d * f <= x /\ x < d * (f + 1)

Clamp(x, lo, hi) == IF x < lo THEN lo ELSE IF x > hi THEN hi ELSE x

\* C13: for every place with at least one leg, averageMinutes is the mean of
\* the legs' durationSeconds divided by 60 and rounded, and accessibilityScore
\* is 10 - floor((averageMinutes - 15) / 5) clamped to [1, 10]; legs of 600 s
\* and 900 s give 13 minutes and a score of 10.
C13_AverageAndScoreFormula ==
    \A t \in Summaries :
        Len(t.fromAddresses) >= 1 =>
            /\ IsRounded(t.averageMinutes, SumDuration(t.fromAddresses),
                         60 * Len(t.fromAddresses))
            /\ \E f \in (0 - 3)..(t.averageMinutes \div 5) :
                  /\ IsFloor(f, t.averageMinutes - 15, 5)
                  /\ t.accessibilityScore = Clamp(10 - f, 1, 10)

C13_Witness ==
    \E t \in Summaries :
        /\ Len(t.fromAddresses) = 2
        /\ t.fromAddresses[1].durationSeconds = 600
        /\ t.fromAddresses[2].durationSeconds = 900
        /\ t.averageMinutes = 13
        /\ t.accessibilityScore = 10

\* C14: every accessibilityScore attached to a place is within [1, 10], and
\* an average transit time 5 minutes longer never gives a higher score.
C14_ScoreRangeAndMonotone ==
    \A t \in Summaries :
        /\ t.accessibilityScore >= 1
        /\ t.accessibilityScore <= 10
        /\ AccessibilityScore(t.averageMinutes + 5) <= t.accessibilityScore
        /\ t.averageMinutes >= 5 =>
              AccessibilityScore(t.averageMinutes - 5) >= t.accessibilityScore

C14_Witness ==
    /\ \E t \in Summaries : t.averageMinutes > 60 /\ t.accessibilityScore = 1
    /\ \E t \in Summaries : t.averageMinutes < 15 /\ t.accessibilityScore = 10

\* The places that carry an accessibility summary.
SummarisedPlaces ==
    { q \in Range(places) \cup Range(recs) : q.transportationAccessibility # None }

\* The transit calls issued for place p from the origin of address i.
TransitCalls(p, i) ==
    { k \in DOMAIN log : /\ log[k].svc = "transit"
                         /\ log[k].arg = i
                         /\ log[k].place = Some(PlaceKey(p)) }

\* C15: a place's calculationMethod is the provider-API value if and only if
\* at least one of its legs came from a provider call that succeeded with a
\* positive duration, and is "estimated" if and only if all its legs are
\* estimated legs.
C15_CalculationMethod ==
    LET okCalls == { k \in CallsOf({"transit"}) : log[k].out = "ok" } IN
    \A p \in SummarisedPlaces :
        LET t == p.transportationAccessibility[1] IN
        /\ t.calculationMethod \in {"google_maps_api", "estimated"}
        /\ t.calculationMethod = "google_maps_api" <=>
              \E k \in okCalls :
                  /\ log[k].place = Some(PlaceKey(p))
                  /\ log[k].arg \in DOMAIN t.fromAddresses
                  /\ ProviderDuration(log[k].arg, p) > 0
        /\ t.calculationMethod = "estimated" <=>
              \A i \in DOMAIN t.fromAddresses :
                  t.fromAddresses[i].transitMode = "estimated"

C15_Witness ==
    \E p \in SummarisedPlaces :
        LET t == p.transportationAccessibility[1] IN
        /\ Len(t.fromAddresses) = 2
        /\ t.fromAddresses[1].transitMode = "estimated"
        /\ t.fromAddresses[2].transitMode = "transit"
        /\ t.calculationMethod = "google_maps_api"

\* The durations an estimated leg may carry: 15 to 35 minutes.
EstimatedDurations ==
    { 60 * m : m \in FallbackBaseMinutes..(FallbackBaseMinutes + FallbackSpreadMinutes) }

\* C16: every summary has exactly one leg per input address, leg i with the
\* origin of address i; leg i carries the provider's duration and distance
\* when the call for origin i returned a positive duration, and is an
\* estimated leg, flagged as such, when that call failed, returned no element
\* or returned a non-positive duration.
C16_OneLegPerAddress ==
    LET transit == CallsOf({"transit"}) IN
    \A p \in SummarisedPlaces :
        LET legs == p.transportationAccessibility[1].fromAddresses
            forPlace == { k \in transit : log[k].place = Some(PlaceKey(p)) }
        IN
        /\ Len(legs) = req.n
        /\ \A i \in 1..req.n :
              LET calls == { k \in forPlace : log[k].arg = i } IN
              /\ legs[i].origin = Addresses(req)[i]
              /\ Cardinality(calls) = 1
              /\ \A k \in calls :
                    IF log[k].out = "ok" /\ ProviderDuration(i, p) > 0
                      THEN /\ legs[i].transitMode = "transit"
                           /\ legs[i].durationSeconds = ProviderDuration(i, p)
                           /\ legs[i].distanceMeters = ProviderDistance(i, p)
                      ELSE /\ log[k].out \in {"zero", "none", "throw"}
                           /\ legs[i].transitMode = "estimated"
                           /\ legs[i].durationSeconds \in EstimatedDurations

C16_Witness ==
    \E p \in SummarisedPlaces :
        LET legs == p.transportationAccessibility[1].fromAddresses IN
        /\ Len(legs) = 2
        /\ legs[1].transitMode = "transit"
        /\ legs[1].durationSeconds = ProviderDuration(1, p)
        /\ legs[2].transitMode = "estimated"
        /\ \E k \in TransitCalls(p, 2) : log[k].out = "zero"

\* Two places match: name similarity above 0.7 and less than 100 m apart.
Matches(a, b) ==
    LET sim == calculateSimilarity(a.name, b.name)
    IN 10 * sim.num > 7 * sim.den /\ calculateDistance(a.coordinates, b.coordinates) < 100

\* The indices up to j of the secondary places that are appended: those
\* matching no primary place and no secondary place appended before them.
RECURSIVE KeptIndices(_, _, _)
KeptIndices(P, S, j) ==
    IF j = 0 THEN {}
    ELSE LET K == KeptIndices(P, S, j - 1)
         IN IF \E x \in Range(P) \cup { S[i] : i \in K } : Matches(x, S[j])
              THEN K ELSE K \cup {j}

MergeReturned == runIn.fn = "merge" /\ runOut # None

\* C17: merge(primary, secondary) is primary, unchanged, followed by the
\* secondary places, in their order, that match no place already in the
\* result; a match needs similarity > 0.7 and distance < 100 m, both strict.
C17_MergeKeepsPrimaryAndAppendsUnmatched ==
    MergeReturned =>
        LET P == runIn.primary
            S == runIn.secondary
            R == runOut[1].merged
            K == KeptIndices(P, S, Len(S))
        IN /\ Len(R) = Len(P) + Cardinality(K)
           /\ SubSeq(R, 1, Len(P)) = P
           /\ \A j \in K : R[Len(P) + Cardinality({ i \in K : i <= j })] = S[j]
           /\ (P = <<PlaceHere>> /\ S = <<PlaceNamesakeFar>>) =>
                 R = <<PlaceHere, PlaceNamesakeFar>>
           /\ (P = <<PlaceHere>> /\ S = <<PlaceSimilarNear>>) => R = <<PlaceHere>>
           /\ (P = <<PlaceHere>> /\ S = <<PlaceLessSimilarHere>>) =>
                 R = <<PlaceHere, PlaceLessSimilarHere>>
           /\ (P = <<PlaceHere>> /\ S = <<PlaceSimilarAtLimit>>) =>
                 R = <<PlaceHere, PlaceSimilarAtLimit>>
           /\ (P = <<PlaceHere>> /\ S = <<PlaceOtherHere>>) =>
                 R = <<PlaceHere, PlaceOtherHere>>
           /\ (P = <<>> /\ S = <<PlaceSimilarNear, PlaceHere>>) =>
                 R = <<PlaceSimilarNear>>

C17_Witness ==
    /\ MergeReturned
    /\ runIn.primary = <<PlaceHere, PlaceHere>>
    /\ runIn.secondary = <<PlaceSimilarNear, PlaceNamesakeFar>>
    /\ runOut[1].merged = <<PlaceHere, PlaceHere, PlaceNamesakeFar>>

\* C18: merge(L, L) = L for every list L, and merging the result of
\* merge(P, S) with S again changes nothing.
C18_MergeIdempotent ==
    MergeReturned =>
        /\ runOut[1].remerged = runOut[1].merged
        /\ runIn.primary = runIn.secondary => runOut[1].merged = runIn.primary

C18_Witness ==
    /\ MergeReturned
    /\ runIn.primary = <<PlaceHere, PlaceSimilarNear>>
    /\ runIn.secondary = runIn.primary
    /\ runOut[1].merged = runIn.primary
    /\ runOut[1].remerged = runIn.primary

CenterReturned == runIn.fn = "center" /\ runOut # None

C20_ReverseGeocodeNeverThrows ==
    /\ failedFrom # "CENTROID"
    /\ (stage = "GEOCODING" /\ Len(geo) = req.n) => ENABLED ComputeCentroid
    /\ \A k \in CallsOf({"reverseGeocode"}) :
          /\ center # None
          /\ center[1].coordinates =
                calculateCenterPoint([i \in 1..Len(geo) |-> geo[i].coordinates])
          /\ log[k].out # "ok" =>
                center[1].address = [kind |-> "coordinate",
                                     lat |-> center[1].coordinates.lat,
                                     lng |-> center[1].coordinates.lng]

C20_Witness ==
    /\ stage = "DONE"
    /\ Len(recs) > 0
    /\ \E k \in CallsOf({"reverseGeocode"}) : log[k].out = "unavailable"
    /\ center[1].address.kind = "coordinate"
    /\ center[1].address.lat = center[1].coordinates.lat

TransitTimeReturned == runIn.fn = "transitTime" /\ runOut # None

\* C21: with an API key, calculateTransitTime never throws and returns one
\* result per destination, in destination order, whatever the provider
\* answers; the results of failed destinations carry durationSeconds = 0 and
\* distanceMeters = 0.
C21_OneResultPerDestination ==
    (TransitTimeReturned /\ runIn.apiKey) =>
        LET out == runOut[1]
            ds == runIn.destinations
            r == runIn.response
        IN /\ ~out.threw
           /\ Len(out.results) = Len(ds)
           /\ \A i \in DOMAIN ds :
                 /\ out.results[i].destination = ds[i]
                 /\ (r.kind = "network" \/ r.status # "OK" \/ r.rows = <<>>
                        \/ r.rows[1][i].status # "OK") =>
                       /\ out.results[i].durationSeconds = 0
                       /\ out.results[i].distanceMeters = 0

AccessScore(p) == p.transportationAccessibility[1].accessibilityScore

\* C22: in the DONE response the best-accessibility place is a returned
\* recommendation whose accessibilityScore is maximal among the returned
\* recommendations, and 'N/A' when no recommendation has a score.
C22_BestAccessibilityIsMaximal ==
    (stage = "DONE" /\ diag # None) =>
        LET best == diag[1].bestAccessibilityLocation
            scored == { i \in DOMAIN recs : HasScore(recs[i]) }
        IN IF scored = {} THEN best = None
           ELSE /\ best # None
                /\ \E i \in scored :
                      /\ PlaceKey(recs[i]) = best[1]
                      /\ \A j \in scored : AccessScore(recs[j]) <= AccessScore(recs[i])

\* C23: in the DONE response the count of calculations is the number of
\* transit calculations performed during the request: one per address and
\* candidate place analysed, and 0 when the accessibility stage was skipped.
C23_TotalCalculationsCountsTransitCalls ==
    (stage = "DONE" /\ diag # None) =>
        /\ diag[1].totalCalculations = Cardinality(CallsOf({"transit"}))
        /\ ~isAvailable(googleKey) => diag[1].totalCalculations = 0

\* C24: no place-search call is issued before every address is geocoded and
\* the centroid computed; no transit call is issued before the place search
\* has settled; the oracle is invoked at most once, and only after the
\* summary of every candidate place is finalized.
C24_StageOrdering ==
    LET S == CallsOf(SearchSvcs)
        T == CallsOf({"transit"})
        O == CallsOf({"oracle"})
    IN /\ \A s \in S :
             /\ \A a \in 1..req.n :
                   \E g \in 1..(s - 1) : /\ log[g].svc \in GeocodeSvcs
                                         /\ log[g].stage = "GEOCODING"
                                         /\ log[g].arg = a
                                         /\ log[g].out = "ok"
             /\ \E c \in 1..(s - 1) : log[c].svc = "reverseGeocode"
             /\ center # None
       /\ \A t \in T :
             /\ \E s \in S : log[s].out = "ok"
             /\ \A s \in S : s < t
       /\ Cardinality(O) <= 1
       /\ \A o \in O :
             /\ \A t \in T : t < o
             /\ isAvailable(googleKey) =>
                   /\ \A i \in DOMAIN ranked :
                         ranked[i].transportationAccessibility # None
                   /\ Cardinality(T) = req.n * Len(ranked)

C24_Witness ==
    /\ stage = "DONE"
    /\ req.n = 2
    /\ Len(ranked) = 2
    /\ Cardinality(CallsOf({"oracle"})) = 1
    /\ Cardinality(CallsOf({"transit"})) = 4
    /\ Cardinality(CallsOf(SearchSvcs)) = 2

\* C25: whatever the order in which the concurrent transit calls complete, a
\* place's summary is computed only after all N of its calls have settled,
\* and its legs, in content and order, are those of its origins in input
\* order: they do not depend on the order of completion.
C25_SummaryIndependentOfCompletionOrder ==
    \A j \in DOMAIN places :
        places[j].transportationAccessibility # None =>
            LET t == places[j].transportationAccessibility[1] IN
            /\ SettledOrigins(j) = 1..runIn.n
            /\ Len(t.fromAddresses) = runIn.n
            /\ \A i \in 1..runIn.n : t.fromAddresses[i].origin = Addresses(req)[i]
            /\ t = calculateTransitToPlace(origins, Addresses(req),
                        Place("google", j), runIn.outs,
                        [i \in 1..runIn.n |-> runIn.minutes])

C25_Witness ==
    /\ runIn.n = 2
    /\ runIn.outs[1] = "ok" /\ runIn.outs[2] = "zero"
    /\ \E j \in DOMAIN places :
          /\ places[j].transportationAccessibility # None
          /\ runOut[j][1].index = 2
          /\ j < Len(places) /\ Len(runOut[j + 1]) = 1

\* A call that failed or timed out.
Lost(k) == log[k].out \in {"unavailable", "timeout", "none", "throw"}

TimeoutsHandledAsFailures ==
    /\ \A k \in CallsOf({"kakaoGeocode"}) :
          (log[k].stage = "GEOCODING" /\ Lost(k)) =>
              IF k < Len(log)
                THEN log[k + 1].svc = "naverGeocode" /\ log[k + 1].arg = log[k].arg
                ELSE stage = "GEOCODING"
    /\ \A k \in CallsOf({"naverGeocode"}) :
          (log[k].stage = "GEOCODING" /\ Lost(k)) =>
              k = Len(log) /\ stage = "FAILED" /\ error = "GEOCODING_ALL_FAILED"
    /\ \A k \in CallsOf({"googleSearch"}) :
          Lost(k) =>
              IF k < Len(log)
                THEN log[k + 1].svc = "kakaoSearch" /\ log[k + 1].params = log[k].params
                ELSE stage = "SEARCHING"
    /\ \A k \in CallsOf({"kakaoSearch"}) :
          Lost(k) => k = Len(log) /\ stage = "FAILED" /\ error = "SERVICE_UNAVAILABLE"
    /\ \A k \in CallsOf({"transit"}) :
          Lost(k) =>
              \A j \in DOMAIN places :
                  (Some(PlaceKey(places[j])) = log[k].place
                     /\ places[j].transportationAccessibility # None) =>
                      LET leg == places[j].transportationAccessibility[1]
                                     .fromAddresses[log[k].arg]
                      IN /\ leg.transitMode = "estimated"
                         /\ leg.durationSeconds \in
                               { 60 * m : m \in FallbackBaseMinutes..
                                           (FallbackBaseMinutes + FallbackSpreadMinutes) }
    /\ \A k \in CallsOf({"oracle"}) :
          Lost(k) =>
              /\ stage = "DONE"
              /\ Len(recs) = Min2(Len(ranked), MaxResultsOf(req))
              /\ \A i \in DOMAIN recs :
                    /\ \E j \in DOMAIN ranked : recs[i] = ranked[j]
                    /\ i > 1 => ScoreOrDefault(recs[i - 1]) >= ScoreOrDefault(recs[i])

\* C26: when every external call returns, fails or times out, an accepted
\* request eventually reaches DONE or FAILED, and a call that timed out is
\* handled like a failed call of its kind: geocoding goes on with the
\* secondary provider, the place search with the fallback provider, a
\* transit call gives an estimated leg and the oracle the fallback ranking.
C26_TerminationAndTimeouts ==
    /\ []TimeoutsHandledAsFailures
    /\ (stage = "GEOCODING") ~> (stage \in {"DONE", "FAILED"})

C26_Witness ==
    /\ stage = "DONE"
    /\ \E k \in CallsOf({"kakaoGeocode"}) : log[k].out = "timeout"
    /\ \E k \in CallsOf({"transit"}) : log[k].out = "timeout"
    /\ \E k \in CallsOf({"oracle"}) : log[k].out = "timeout"
    /\ Len(recs) = 2

\* The Levenshtein distance of the first i letters of a and the first j
\* letters of b, by its defining recursion.
RECURSIVE Levenshtein(_, _, _, _)
Levenshtein(a, b, i, j) ==
    IF i = 0 THEN j
    ELSE IF j = 0 THEN i
    ELSE Min2(Min2(Levenshtein(a, b, i - 1, j) + 1, Levenshtein(a, b, i, j - 1) + 1),
              Levenshtein(a, b, i - 1, j - 1) + (IF a[i] = b[j] THEN 0 ELSE 1))

EditReturned == runIn.fn = "edit" /\ runOut # None

\* C27: getEditDistance(a, b) is the Levenshtein distance, so it is
\* symmetric and is 3 for "kitten" and "sitting"; calculateSimilarity(a, b)
\* is 1 - distance / max(len(a), len(b)), lies in [0, 1], is 1 for a = b and
\* is 1 when both strings are empty.
C27_EditDistanceAndSimilarity ==
    EditReturned =>
        LET a == runIn.a
            b == runIn.b
            out == runOut[1]
            sim == out.similarity
            longest == Max2(Len(a), Len(b))
        IN /\ out.distance = Levenshtein(a, b, Len(a), Len(b))
           /\ out.distance = out.reverse
           /\ (a = Kitten /\ b = Sitting) => out.distance = 3
           /\ sim.den > 0
           /\ longest > 0 => sim.num * longest = sim.den * (longest - out.distance)
           /\ 0 <= sim.num /\ sim.num <= sim.den
           /\ a = b => sim.num = sim.den
           /\ longest = 0 => sim.num = sim.den

C27_Witness ==
    /\ EditReturned
    /\ runIn.a = Kitten /\ runIn.b = Sitting
    /\ runOut[1].distance = 3
    /\ runOut[1].similarity = [num |-> 4, den |-> 7]

\* C28: the origin coordinate of every transit call for address i is the
\* coordinate the GEOCODING stage resolved for address i; the accessibility
\* stage never uses another coordinate for an address.
C28_OriginIsGeocodedCoordinate ==
    /\ \A i \in DOMAIN origins : origins[i] = geo[i].coordinates
    /\ \A k \in CallsOf({"transit"}) :
          log[k].params = Some(geo[log[k].arg].coordinates)

\* C29: generateAIRecommendations leaves its input list unchanged on every
\* path: after the call the caller's list has the same elements in the same
\* order, each with the same field values.
C29_InputListUnchanged ==
    (stage \in {"DONE", "RETURNED"} /\ oracle # None) => places = ranked

\* C30: for every oracle output the returned list is a duplicate-free
\* selection of the candidate places: every returned record is one of the
\* input places, and no input place is returned more than once.
C30_DuplicateFreeSelection ==
    (stage = "DONE" /\ oracle # None) =>
        /\ \A i \in DOMAIN recs : \E j \in DOMAIN ranked :
              /\ PlaceKey(recs[i]) = PlaceKey(ranked[j])
              /\ recs[i].coordinates = ranked[j].coordinates
        /\ \A i \in DOMAIN recs : \A j \in DOMAIN recs :
              i # j => PlaceKey(recs[i]) # PlaceKey(recs[j])
====
